---- MODULE Spec2Model ----
(***************************************************************************)
(* NavBar (src/unnamed/part_003): the mega-menu hover state machine with   *)
(* its deferred-close timer, the search overlay placement and the drawers. *)
(* Lengths are CSS pixels; the overlay's left edge is kept in half pixels  *)
(* (field left2) because btnRect.width / 2 and computedWidth / 2 may be    *)
(* fractional.  Time is in milliseconds.                                   *)
(* PopularProductsCarouselRow (src/src/components/ProductShowcase.tsx): the *)
(* arrow-driven carousel with its scroll flags and progress indicator.     *)
(* CTASection (part_001), Hero (part_002) and the sections observed with   *)
(* an IntersectionObserver (BrandStory.tsx, ProductShowcase.tsx).          *)
(***************************************************************************)
EXTENDS Integers, FiniteSets, Sequences, TLC

\* ---- bounds ------------------------------------------------------------
\* window.setTimeout hands out fresh ids; at most MaxTimerId are handed out.
MaxTimerId == 2
\* The clock advances in quanta of TickMs milliseconds.
TickMs == 70

\* ---- program constants ----------------------------------------------------
\* Delay of the deferred close (second argument of window.setTimeout).
MegaMenuCloseDelay == 140
\* Tailwind's md breakpoint: `hidden md:inline-flex`, `hidden md:flex`, `md:hidden`.
MdBreakpoint == 768
\* The value of megaMenuCloseTimeoutRef.current when no handle is stored (null).
NoTimer == 0

\* ---- static configuration ----------------------------------------------
\* PrimaryNavItemId
PrimaryNavItemId == {"men", "women", "explore", "sustainability", "help"}

\* NAV_ITEMS[i].hasMegaMenu
hasMegaMenu(id) == id # "sustainability"

\* ---- measurement inputs ---------------------------------------------------
\* Viewport width with the search button's rectangle in that layout.
Layouts ==
  { [innerWidth |-> 320,  left |-> 0,    width |-> 0],
    [innerWidth |-> 768,  left |-> 620,  width |-> 24],
    [innerWidth |-> 1440, left |-> 700,  width |-> 20],
    [innerWidth |-> 1440, left |-> 0,    width |-> 24],
    [innerWidth |-> 1440, left |-> 0,    width |-> 0],
    [innerWidth |-> 1440, left |-> 1400, width |-> 24],
    [innerWidth |-> 2000, left |-> 1900, width |-> 24] }

\* window.scrollY values delivered with a scroll event.
ScrollYs == {0, 8, 9}

\* hdrRect.bottom and wrapRect.top (the wrapper is fixed at top 35px).
HdrBottoms == {92}
WrapTops == {35}

VARIABLES
  activeDesktopMenu,        \* PrimaryNavItemId or "null"
  isMobileMenuOpen,
  isLocationDrawerOpen,
  isCartDrawerOpen,
  isWishlistDrawerOpen,
  isSearchBarOpen,
  isHovered,
  isAtTop,
  scrollY,                  \* window.scrollY
  searchBarStyle,           \* [isNull, left2, top, width]
  megaMenuCloseTimeoutRef,  \* timer id or NoTimer
  timers,                   \* the host's pending timers: set of [id, remaining]
  nextTimerId,              \* the id the next window.setTimeout returns
  closeTimerFate,           \* what became of the most recently armed timer
  mounted,                  \* FALSE once the NavBar is unmounted
  pointer,                  \* where the last delivered mouse events put the pointer
  innerWidth,               \* window.innerWidth
  btnRect,                  \* searchButtonRef.current.getBoundingClientRect()
  carouselMounted,          \* TRUE once the carousel's mount effect has run
  scrollLeft,               \* trackRef.current.scrollLeft
  scrollWidth,              \* trackRef.current.scrollWidth
  clientWidth,              \* trackRef.current.clientWidth
  firstChildWidth,          \* firstElementChild.offsetWidth, or None
  scrollDest,               \* destination of the smooth scroll in progress, or None
  scrollEventPending,       \* the offset changed and its scroll event is not delivered yet
  canScrollPrev,
  canScrollNext,
  scrollProgress,           \* percent, as the fraction num / den
  lastScrollBy,             \* `left` of the last scrollBy command
  clicks,                   \* arrow clicks handled so far
  expectedLeft,             \* offset after k clicks of one card each, or None
  paging,                   \* the arrow a paging user keeps clicking (1, -1), or 0
  isExpanded,               \* CTASection: the Bergen story is expanded
  heroMounted,              \* FALSE once the Hero is unmounted
  isDesktop,                \* Hero: matchMedia("(min-width: 1024px)").matches
  clickListener,            \* playVideoOnLowPower listens to body click
  touchListener,            \* playVideoOnLowPower listens to body touchstart
  videoPlaying,             \* per video: currentTime > 0, not paused, not ended, ready
  playAttempted,            \* the videos the fallback called attemptPlay on
  fallbackRuns,             \* runs of playVideoOnLowPower so far
  fallbackThrew,            \* the last run's try block threw
  interactions,             \* body click / touchstart events dispatched so far
  hasIntersectionObserver,  \* typeof IntersectionObserver !== 'undefined'
  nodeAttached,             \* per observed section: ref.current is not null
  sectionPhase,             \* per observed section: rendered, mounted, unmounted
  observing,                \* per observed section: its observer is connected
  isVisible                 \* per observed section: the fade-in flag

navVars == << activeDesktopMenu, isMobileMenuOpen, isLocationDrawerOpen,
           isCartDrawerOpen, isWishlistDrawerOpen, isSearchBarOpen, isHovered,
           isAtTop, searchBarStyle, megaMenuCloseTimeoutRef, timers,
           nextTimerId, closeTimerFate, mounted, pointer, innerWidth, btnRect,
           scrollY >>

carVars == << carouselMounted, scrollLeft, scrollWidth, clientWidth,
              firstChildWidth, scrollDest, scrollEventPending, canScrollPrev,
              canScrollNext, scrollProgress, lastScrollBy, clicks, expectedLeft,
              paging >>

secVars == << isExpanded, heroMounted, isDesktop, clickListener, touchListener,
              videoPlaying, playAttempted, fallbackRuns, fallbackThrew,
              interactions, hasIntersectionObserver, nodeAttached,
              sectionPhase, observing, isVisible >>

vars == << navVars, carVars, secVars >>

drawerVars == << isMobileMenuOpen, isLocationDrawerOpen, isCartDrawerOpen,
                 isWishlistDrawerOpen >>
timerVars == << megaMenuCloseTimeoutRef, timers, nextTimerId, closeTimerFate >>
searchVars == << isSearchBarOpen, searchBarStyle >>
layoutVars == << innerWidth, btnRect >>

\* setSearchBarStyle(null)
NullStyle == [isNull |-> TRUE, left2 |-> 0, top |-> 0, width |-> 0]

\* ---- derived render values ---------------------------------------------
\* currentMegaItem: the active item when it has a mega menu, else "null".
currentMegaItem ==
  IF activeDesktopMenu # "null" /\ hasMegaMenu(activeDesktopMenu)
    THEN activeDesktopMenu ELSE "null"

\* The header is hovered while the pointer is on it or on one of its buttons.
InHeader(p) == p = "header" \/ p \in PrimaryNavItemId

\* Something is rendered in the wrapper below the header: the SearchBar, or
\* the DesktopMegaMenu (`hidden md:block`).
PanelRendered ==
  \/ isSearchBarOpen
  \/ (currentMegaItem # "null" /\ ~isSearchBarOpen /\ innerWidth >= MdBreakpoint)

\* showSolid: the header is rendered white (otherwise transparent).
showSolid == ~isAtTop \/ isHovered \/ currentMegaItem # "null"

\* aria-expanded of a nav button is "true".
ariaExpanded(item) == hasMegaMenu(item) /\ activeDesktopMenu = item

\* <DesktopMegaMenu item={currentMegaItem} /> is rendered for the item.
MegaMenuIgnoresSearch(item) == currentMegaItem = item

DesktopMegaMenuRendered(item) == currentMegaItem = item /\ ~isSearchBarOpen

\* ---- timer helpers -------------------------------------------------------
\* window.clearTimeout(ref) followed by ref.current = null, when ref is set.
ClearNoCancel(ref, ts) ==
  IF ref # NoTimer THEN [ref |-> NoTimer, timers |-> ts]
                   ELSE [ref |-> ref, timers |-> ts]

clearMegaMenuCloseTimeout(ref, ts) ==
  IF ref # NoTimer
    THEN [ref |-> NoTimer, timers |-> {t \in ts : t.id # ref}]
    ELSE [ref |-> ref, timers |-> ts]

\* clearMegaMenuCloseTimeout(); ref.current = window.setTimeout(cb, 140)
ScheduleNoClear(ref, ts, id) ==
  [ref |-> id,
   timers |-> ts \cup {[id |-> id, remaining |-> MegaMenuCloseDelay]}]

ScheduleNoArm(ref, ts, id) ==
  LET c == clearMegaMenuCloseTimeout(ref, ts)
  IN  [ref |-> c.ref, timers |-> c.timers]

scheduleMegaMenuClose(ref, ts, id) ==
  LET c == clearMegaMenuCloseTimeout(ref, ts)
  IN  [ref |-> id,
       timers |-> c.timers \cup {[id |-> id, remaining |-> MegaMenuCloseDelay]}]

\* The fate recorded after a clear: a pending timer that is gone was cancelled.
FateAfterClear(ts) ==
  IF ts = {} /\ timers # {} THEN "cancelled" ELSE closeTimerFate

\* ---- hover handler -------------------------------------------------------
\* handleDesktopItemHover(id): id is an item id or "null".
HoverOpenOnlyWhenIdle(id, menu, ref, ts) ==
  IF id # "null"
    THEN LET c == clearMegaMenuCloseTimeout(ref, ts)
         IN  [menu |-> IF menu = "null" THEN id ELSE menu,
              ref |-> c.ref, timers |-> c.timers]
    ELSE [menu |-> "null", ref |-> ref, timers |-> ts]

HoverPlainIgnored(id, menu, ref, ts) ==
  IF id # "null"
    THEN LET c == clearMegaMenuCloseTimeout(ref, ts)
         IN  [menu |-> id, ref |-> c.ref, timers |-> c.timers]
    ELSE [menu |-> menu, ref |-> ref, timers |-> ts]

handleDesktopItemHover(id, menu, ref, ts) ==
  IF id # "null"
    THEN LET c == clearMegaMenuCloseTimeout(ref, ts)
         IN  [menu |-> id, ref |-> c.ref, timers |-> c.timers]
    ELSE [menu |-> "null", ref |-> ref, timers |-> ts]

\* ---- search overlay placement -------------------------------------------
Min(a, b) == IF a < b THEN a ELSE b
Max(a, b) == IF a > b THEN a ELSE b

\* Math.min(800, Math.max(320, Math.floor(window.innerWidth * 0.44)))
WidthFortyPercent(vw) == Min(800, Max(320, (vw * 40) \div 100))

computedWidth(vw) == Min(800, Max(320, (vw * 44) \div 100))

\* left, in half pixels: btnRect.left + btnRect.width / 2 - computedWidth / 2,
\* then Math.max(12, Math.min(left, window.innerWidth - computedWidth - 12)).
LeftUnclamped2(vw, rect) ==
  2 * rect.left + rect.width - computedWidth(vw)

computedLeft2(vw, rect) ==
  LET naive2 == 2 * rect.left + rect.width - computedWidth(vw)
  IN  Max(2 * 12, Min(naive2, 2 * (vw - computedWidth(vw) - 12)))

\* Math.max(0, hdrRect.bottom - wrapRect.top + 8)
computedTop(hdrBottom, wrapTop) == Max(0, hdrBottom - wrapTop + 8)

\* ---- carousel: constants, inputs and helpers ------------------------------
\* Arrow clicks handled in one behaviour.
MaxClicks == 3

\* GAP_PX
GAP_PX == 20
\* A null firstElementChild, no smooth scroll in progress, no prediction.
None == 0 - 1

\* Body click / touchstart events dispatched in a behaviour.
MaxInteractions == 2

\* document.querySelectorAll("video"): the page's only video is the Hero's.
Videos == {"hero"}
\* The sections that fade in when they enter the viewport.
Sections == {"StoryHero", "PopularProducts"}

\* Layouts of the track: scrollWidth, clientWidth and the first card's
\* offsetWidth (None: the track has no child).
Tracks ==
  { [scrollWidth |-> 100, clientWidth |-> 100, firstChildWidth |-> None],
    [scrollWidth |-> 100, clientWidth |-> 100, firstChildWidth |-> 30],
    [scrollWidth |-> 101, clientWidth |-> 100, firstChildWidth |-> 30],
    [scrollWidth |-> 230, clientWidth |-> 100, firstChildWidth |-> 30],
    [scrollWidth |-> 130, clientWidth |-> 100, firstChildWidth |-> 0] }

\* maxScroll = scrollWidth - clientWidth
maxScroll(sw, cw) == sw - cw

\* The host keeps the offset within [0, maxScroll].
clampOffset(x, sw, cw) == Max(0, Min(x, Max(0, maxScroll(sw, cw))))

\* Fractions num / den with den > 0.
FracLe(a, b) == a.num * b.den <= b.num * a.den
Percent(n) == [num |-> n, den |-> 1]

\* updateScrollState: the three values it sets, from the node's measurements.
UpdateProgressOverScrollWidth(sl, sw, cw) ==
  [prev |-> sl > 0,
   next |-> sl < maxScroll(sw, cw) - 1,
   progress |-> IF maxScroll(sw, cw) <= 0 THEN Percent(100)
                ELSE [num |-> sl * 100, den |-> sw]]

UpdateNextWithinOnePixel(sl, sw, cw) ==
  [prev |-> sl > 0,
   next |-> sl < maxScroll(sw, cw) + 1,
   progress |-> IF maxScroll(sw, cw) <= 0 THEN Percent(100)
                ELSE [num |-> sl * 100, den |-> maxScroll(sw, cw)]]

UpdateNextTenPixels(sl, sw, cw) ==
  [prev |-> sl > 0,
   next |-> sl < maxScroll(sw, cw) - 10,
   progress |-> IF maxScroll(sw, cw) <= 0 THEN Percent(100)
                ELSE [num |-> sl * 100, den |-> maxScroll(sw, cw)]]

updateScrollState(sl, sw, cw) ==
  [prev |-> sl > 0,
   next |-> sl < maxScroll(sw, cw) - 1,
   progress |-> IF maxScroll(sw, cw) <= 0 THEN Percent(100)
                ELSE [num |-> sl * 100, den |-> maxScroll(sw, cw)]]

\* step = (firstChild?.offsetWidth ?? node.clientWidth * 0.8)
\*        + (firstChild ? GAP_PX : 0)
StepWithoutGap(fcw, cw) ==
  IF fcw # None THEN fcw ELSE (cw * 8) \div 10

step(fcw, cw) ==
  (IF fcw # None THEN fcw ELSE (cw * 8) \div 10)
    + (IF fcw # None THEN GAP_PX ELSE 0)

\* The carousel as rendered, before its mount effect; the track is t.
CarouselRendered(t) ==
  /\ carouselMounted = FALSE
  /\ scrollLeft = 0
  /\ scrollWidth = t.scrollWidth
  /\ clientWidth = t.clientWidth
  /\ firstChildWidth = t.firstChildWidth
  /\ scrollDest = None
  /\ scrollEventPending = FALSE
  /\ canScrollPrev = FALSE
  /\ canScrollNext = FALSE
  /\ scrollProgress = Percent(0)
  /\ lastScrollBy = 0
  /\ clicks = 0
  /\ expectedLeft = None
  /\ paging = 0

\* CTASection and Hero after their mount effects, the observed sections as
\* rendered before theirs.  desktop: the media query matches; playing: the
\* videos autoplay started; io: the host has IntersectionObserver; nodes: the
\* sections whose ref is attached.
SectionsRendered(desktop, playing, io, nodes) ==
  /\ isExpanded = FALSE
  /\ heroMounted = TRUE
  /\ isDesktop = desktop
  /\ clickListener = TRUE
  /\ touchListener = TRUE
  /\ videoPlaying = [v \in Videos |-> v \in playing]
  /\ playAttempted = {}
  /\ fallbackRuns = 0
  /\ fallbackThrew = FALSE
  /\ interactions = 0
  /\ hasIntersectionObserver = io
  /\ nodeAttached = [s \in Sections |-> s \in nodes]
  /\ sectionPhase = [s \in Sections |-> "rendered"]
  /\ observing = [s \in Sections |-> FALSE]
  /\ isVisible = [s \in Sections |-> FALSE]

TypeOK ==
  /\ activeDesktopMenu \in PrimaryNavItemId \cup {"null"}
  /\ drawerVars \in BOOLEAN \X BOOLEAN \X BOOLEAN \X BOOLEAN
  /\ isSearchBarOpen \in BOOLEAN /\ isHovered \in BOOLEAN
  /\ isAtTop \in BOOLEAN /\ mounted \in BOOLEAN
  /\ scrollY \in ScrollYs
  /\ megaMenuCloseTimeoutRef \in 0..(MaxTimerId + 1)
  /\ nextTimerId \in 1..(MaxTimerId + 1)
  /\ closeTimerFate \in {"none", "pending", "cancelled", "fired"}
  /\ pointer \in {"out", "header", "panel"} \cup PrimaryNavItemId
  /\ \A t \in timers : t.id \in 1..MaxTimerId /\ t.remaining \in 0..MegaMenuCloseDelay

\* ---- initial state: after mount -----------------------------------------
NavInit ==
  /\ activeDesktopMenu = "null"
  /\ isMobileMenuOpen = FALSE
  /\ isLocationDrawerOpen = FALSE
  /\ isCartDrawerOpen = FALSE
  /\ isWishlistDrawerOpen = FALSE
  /\ isSearchBarOpen = FALSE
  /\ isHovered = FALSE
  /\ scrollY \in ScrollYs
  /\ isAtTop = (scrollY <= 8)
  /\ searchBarStyle = NullStyle
  /\ megaMenuCloseTimeoutRef = NoTimer
  /\ timers = {}
  /\ nextTimerId = 1
  /\ closeTimerFate = "none"
  /\ mounted = TRUE
  /\ pointer = "out"
  /\ \E l \in Layouts :
       /\ innerWidth = l.innerWidth
       /\ btnRect = [left |-> l.left, width |-> l.width]

\* The NavBar mounted, the carousel rendered with five cards.
Init ==
  /\ NavInit
  /\ CarouselRendered([scrollWidth |-> 230, clientWidth |-> 100,
                       firstChildWidth |-> 30])
  /\ SectionsRendered(TRUE, Videos, TRUE, Sections)

\* ---- pointer events ------------------------------------------------------
\* Wrapper onMouseEnter = clearMegaMenuCloseTimeout; the pointer lands on the
\* header (header onMouseEnter) or on the rendered panel.
WrapperEnterNoClear(to) ==
  /\ mounted /\ pointer = "out"
  /\ to = "header" \/ (to = "panel" /\ PanelRendered)
  /\ isHovered' = (to = "header")
  /\ pointer' = to
  /\ UNCHANGED << secVars, carVars, scrollY, activeDesktopMenu, drawerVars, searchVars,
                  isAtTop, timerVars, mounted, layoutVars >>

WrapperMouseEnter(to) ==
  /\ mounted /\ pointer = "out"
  /\ to = "header" \/ (to = "panel" /\ PanelRendered)
  /\ LET c == clearMegaMenuCloseTimeout(megaMenuCloseTimeoutRef, timers)
     IN  /\ megaMenuCloseTimeoutRef' = c.ref
         /\ timers' = c.timers
         /\ closeTimerFate' = FateAfterClear(c.timers)
  /\ isHovered' = (to = "header")
  /\ pointer' = to
  /\ UNCHANGED << secVars, carVars, scrollY, activeDesktopMenu, drawerVars, searchVars, isAtTop,
                  nextTimerId, mounted, layoutVars >>

\* Wrapper onMouseLeave = scheduleMegaMenuClose (header onMouseLeave first).
\* The handler is accepted in every pointer position, also when the last
\* event already was a leave: a repeated leave re-arms the timer.
WrapperMouseLeave ==
  /\ mounted
  /\ nextTimerId <= MaxTimerId
  /\ LET s == scheduleMegaMenuClose(megaMenuCloseTimeoutRef, timers, nextTimerId)
     IN  /\ megaMenuCloseTimeoutRef' = s.ref
         /\ timers' = s.timers
         /\ closeTimerFate' =
              IF \E t \in s.timers : t.id = nextTimerId
                THEN "pending" ELSE FateAfterClear(s.timers)
  /\ nextTimerId' = nextTimerId + 1
  /\ isHovered' = FALSE
  /\ pointer' = "out"
  /\ UNCHANGED << secVars, carVars, scrollY, activeDesktopMenu, drawerVars, searchVars, isAtTop,
                  mounted, layoutVars >>

\* The pointer moves between the header and the panel inside the wrapper.
PointerMoveInZone(to) ==
  /\ mounted /\ pointer # "out" /\ to # pointer
  /\ pointer = "panel" => PanelRendered
  /\ to = "header" \/ (to = "panel" /\ PanelRendered)
  /\ isHovered' = (to = "header")
  /\ pointer' = to
  /\ UNCHANGED << secVars, carVars, scrollY, activeDesktopMenu, drawerVars, searchVars, isAtTop,
                  timerVars, mounted, layoutVars >>

\* Nav button onMouseEnter (the nav is `hidden md:flex`).
NavItemMouseEnter(item) ==
  /\ mounted /\ pointer # "out" /\ pointer # item
  /\ pointer = "panel" => PanelRendered
  /\ innerWidth >= MdBreakpoint
  /\ LET h == handleDesktopItemHover(IF hasMegaMenu(item) THEN item ELSE "null",
                                     activeDesktopMenu,
                                     megaMenuCloseTimeoutRef, timers)
     IN  /\ activeDesktopMenu' = h.menu
         /\ megaMenuCloseTimeoutRef' = h.ref
         /\ timers' = h.timers
         /\ closeTimerFate' = FateAfterClear(h.timers)
  /\ isHovered' = TRUE
  /\ pointer' = item
  /\ UNCHANGED << secVars, carVars, scrollY, drawerVars, searchVars, isAtTop, nextTimerId, mounted,
                  layoutVars >>

\* ---- the host's timers ---------------------------------------------------
\* Time passes while no pending timer is due.
Tick ==
  /\ timers # {}
  /\ \A t \in timers : t.remaining > 0
  /\ timers' = { [id |-> t.id,
                  remaining |-> IF t.remaining > TickMs
                                  THEN t.remaining - TickMs ELSE 0] : t \in timers }
  /\ UNCHANGED << secVars, carVars, scrollY, activeDesktopMenu, drawerVars, searchVars, isHovered, isAtTop,
                  megaMenuCloseTimeoutRef, nextTimerId, closeTimerFate,
                  mounted, pointer, layoutVars >>

\* A due timer's callback: setActiveDesktopMenu(null); ref.current = null.
TimerFire(t) ==
  /\ t \in timers /\ t.remaining = 0
  /\ activeDesktopMenu' = "null"
  /\ megaMenuCloseTimeoutRef' = NoTimer
  /\ timers' = timers \ {t}
  /\ closeTimerFate' = "fired"
  /\ UNCHANGED << secVars, carVars, scrollY, drawerVars, searchVars, isHovered, isAtTop, nextTimerId,
                  mounted, pointer, layoutVars >>

\* ---- drawers ---------------------------------------------------------------
\* Location button onClick.
OpenLocationClosesOthers ==
  /\ mounted
  /\ isLocationDrawerOpen' = TRUE
  /\ isCartDrawerOpen' = FALSE
  /\ isWishlistDrawerOpen' = FALSE
  /\ UNCHANGED << secVars, carVars, scrollY, activeDesktopMenu, isMobileMenuOpen, searchVars,
                  isHovered, isAtTop, timerVars, mounted, pointer, layoutVars >>

openLocationDrawer ==
  /\ mounted
  /\ isLocationDrawerOpen' = TRUE
  /\ UNCHANGED << secVars, carVars, scrollY, activeDesktopMenu, isMobileMenuOpen, isCartDrawerOpen,
                  isWishlistDrawerOpen, searchVars, isHovered, isAtTop,
                  timerVars, mounted, pointer, layoutVars >>

\* LocationDrawer onClose (backdrop or close button; rendered only when open).
closeLocationDrawer ==
  /\ mounted /\ isLocationDrawerOpen
  /\ isLocationDrawerOpen' = FALSE
  /\ UNCHANGED << secVars, carVars, scrollY, activeDesktopMenu, isMobileMenuOpen, isCartDrawerOpen,
                  isWishlistDrawerOpen, searchVars, isHovered, isAtTop,
                  timerVars, mounted, pointer, layoutVars >>

\* Hamburger onClick while closed (the button is `md:hidden`).
openMobileMenu ==
  /\ mounted /\ innerWidth < MdBreakpoint /\ ~isMobileMenuOpen
  /\ isMobileMenuOpen' = TRUE
  /\ UNCHANGED << secVars, carVars, scrollY, activeDesktopMenu, isLocationDrawerOpen, isCartDrawerOpen,
                  isWishlistDrawerOpen, searchVars, isHovered, isAtTop,
                  timerVars, mounted, pointer, layoutVars >>

\* Hamburger onClick while open, or MobileMenu onClose (both `md:hidden`).
closeMobileMenu ==
  /\ mounted /\ innerWidth < MdBreakpoint /\ isMobileMenuOpen
  /\ isMobileMenuOpen' = FALSE
  /\ UNCHANGED << secVars, carVars, scrollY, activeDesktopMenu, isLocationDrawerOpen, isCartDrawerOpen,
                  isWishlistDrawerOpen, searchVars, isHovered, isAtTop,
                  timerVars, mounted, pointer, layoutVars >>

\* Cart button onClick.
OpenCartKeepWishlist ==
  /\ mounted
  /\ isCartDrawerOpen' = TRUE
  /\ UNCHANGED << secVars, carVars, scrollY, activeDesktopMenu, isMobileMenuOpen, isLocationDrawerOpen,
                  isWishlistDrawerOpen, searchVars, isHovered, isAtTop,
                  timerVars, mounted, pointer, layoutVars >>

openCartDrawer ==
  /\ mounted
  /\ isCartDrawerOpen' = TRUE
  /\ isWishlistDrawerOpen' = FALSE
  /\ UNCHANGED << secVars, carVars, scrollY, activeDesktopMenu, isMobileMenuOpen, isLocationDrawerOpen,
                  searchVars, isHovered, isAtTop, timerVars, mounted, pointer,
                  layoutVars >>

\* CartDrawer onClose (backdrop, close button or "continue shopping").
CloseCartClosesAll ==
  /\ mounted /\ isCartDrawerOpen
  /\ isCartDrawerOpen' = FALSE
  /\ isLocationDrawerOpen' = FALSE
  /\ isMobileMenuOpen' = FALSE
  /\ UNCHANGED << secVars, carVars, scrollY, activeDesktopMenu, isWishlistDrawerOpen, searchVars,
                  isHovered, isAtTop, timerVars, mounted, pointer, layoutVars >>

closeCartDrawer ==
  /\ mounted /\ isCartDrawerOpen
  /\ isCartDrawerOpen' = FALSE
  /\ UNCHANGED << secVars, carVars, scrollY, activeDesktopMenu, isMobileMenuOpen, isLocationDrawerOpen,
                  isWishlistDrawerOpen, searchVars, isHovered, isAtTop,
                  timerVars, mounted, pointer, layoutVars >>

\* Wishlist button onClick.
openWishlistDrawer ==
  /\ mounted
  /\ isWishlistDrawerOpen' = TRUE
  /\ isCartDrawerOpen' = FALSE
  /\ UNCHANGED << secVars, carVars, scrollY, activeDesktopMenu, isMobileMenuOpen, isLocationDrawerOpen,
                  searchVars, isHovered, isAtTop, timerVars, mounted, pointer,
                  layoutVars >>

\* WishlistDrawer onClose.
closeWishlistDrawer ==
  /\ mounted /\ isWishlistDrawerOpen
  /\ isWishlistDrawerOpen' = FALSE
  /\ UNCHANGED << secVars, carVars, scrollY, activeDesktopMenu, isMobileMenuOpen, isLocationDrawerOpen,
                  isCartDrawerOpen, searchVars, isHovered, isAtTop,
                  timerVars, mounted, pointer, layoutVars >>

\* ---- search toggle -----------------------------------------------------
\* handleSearchToggle while the SearchBar is open.
SearchToggleCloseKeepMenu ==
  /\ isSearchBarOpen
  /\ activeDesktopMenu' = activeDesktopMenu
  /\ isSearchBarOpen' = FALSE
  /\ searchBarStyle' = NullStyle

SearchToggleClose ==
  /\ isSearchBarOpen
  /\ activeDesktopMenu' = "null"
  /\ isSearchBarOpen' = FALSE
  /\ searchBarStyle' = NullStyle

\* handleSearchToggle while closed and one of the three refs is null.
SearchToggleOpenFallback ==
  /\ ~isSearchBarOpen
  /\ activeDesktopMenu' = "null"
  /\ isSearchBarOpen' = TRUE
  /\ searchBarStyle' = NullStyle

\* handleSearchToggle while closed with btn, hdr and wrap measured.
SearchToggleOpenComputed ==
  /\ ~isSearchBarOpen
  /\ activeDesktopMenu' = "null"
  /\ \E hdrBottom \in HdrBottoms, wrapTop \in WrapTops :
       searchBarStyle' = [isNull |-> FALSE,
                          left2 |-> computedLeft2(innerWidth, btnRect),
                          top |-> computedTop(hdrBottom, wrapTop),
                          width |-> computedWidth(innerWidth)]
  /\ isSearchBarOpen' = TRUE

\* Search button onClick (the button is `hidden md:inline-flex`).
handleSearchToggle ==
  /\ mounted /\ innerWidth >= MdBreakpoint
  /\ \/ SearchToggleClose
     \/ SearchToggleOpenFallback
     \/ SearchToggleOpenComputed
  /\ UNCHANGED << secVars, carVars, scrollY, drawerVars, isHovered, isAtTop, timerVars, mounted, pointer,
                  layoutVars >>

\* ---- window events -------------------------------------------------------
\* onScroll: setIsAtTop(window.scrollY <= 8)
ScrollAtTopBelowEight(y) ==
  /\ mounted
  /\ scrollY' = y
  /\ isAtTop' = (y < 8)
  /\ UNCHANGED << secVars, carVars, activeDesktopMenu, drawerVars, searchVars, isHovered,
                  timerVars, mounted, pointer, layoutVars >>

Scroll(y) ==
  /\ mounted
  /\ scrollY' = y
  /\ isAtTop' = (y <= 8)
  /\ UNCHANGED << secVars, carVars, activeDesktopMenu, drawerVars, searchVars, isHovered,
                  timerVars, mounted, pointer, layoutVars >>

\* The window is resized (the pointer is on the window frame): no handler.
ResizeRecomputes(l) ==
  /\ mounted /\ pointer = "out"
  /\ innerWidth' = l.innerWidth
  /\ btnRect' = [left |-> l.left, width |-> l.width]
  /\ searchBarStyle' =
       IF isSearchBarOpen /\ ~searchBarStyle.isNull
         THEN [searchBarStyle EXCEPT
                 !.left2 = computedLeft2(l.innerWidth, btnRect'),
                 !.width = computedWidth(l.innerWidth)]
         ELSE searchBarStyle
  /\ UNCHANGED << secVars, carVars, scrollY, activeDesktopMenu, drawerVars, isSearchBarOpen,
                  isHovered, isAtTop, timerVars, mounted, pointer >>

Resize(l) ==
  /\ mounted /\ pointer = "out"
  /\ innerWidth' = l.innerWidth
  /\ btnRect' = [left |-> l.left, width |-> l.width]
  /\ UNCHANGED << secVars, carVars, scrollY, activeDesktopMenu, drawerVars, searchVars, isHovered, isAtTop,
                  timerVars, mounted, pointer >>

\* ---- teardown ----------------------------------------------------------------
\* useEffect cleanup: clearMegaMenuCloseTimeout()
UnmountNoClear ==
  /\ mounted
  /\ mounted' = FALSE
  /\ UNCHANGED << secVars, carVars, scrollY, activeDesktopMenu, drawerVars, searchVars, isHovered, isAtTop,
                  timerVars, pointer, layoutVars >>

Unmount ==
  /\ mounted
  /\ mounted' = FALSE
  /\ LET c == clearMegaMenuCloseTimeout(megaMenuCloseTimeoutRef, timers)
     IN  /\ megaMenuCloseTimeoutRef' = c.ref
         /\ timers' = c.timers
         /\ closeTimerFate' = FateAfterClear(c.timers)
  /\ UNCHANGED << secVars, carVars, scrollY, activeDesktopMenu, drawerVars, searchVars, isHovered, isAtTop,
                  nextTimerId, pointer, layoutVars >>

\* ---- specification ---------------------------------------------------------
Next ==
  \/ \E to \in {"header", "panel"} : WrapperMouseEnter(to)
  \/ WrapperMouseLeave
  \/ \E to \in {"header", "panel"} : PointerMoveInZone(to)
  \/ \E item \in PrimaryNavItemId : NavItemMouseEnter(item)
  \/ Tick
  \/ \E t \in timers : TimerFire(t)
  \/ openLocationDrawer
  \/ closeLocationDrawer
  \/ openMobileMenu
  \/ closeMobileMenu
  \/ openCartDrawer
  \/ closeCartDrawer
  \/ openWishlistDrawer
  \/ closeWishlistDrawer
  \/ handleSearchToggle
  \/ \E y \in ScrollYs : Scroll(y)
  \/ \E l \in Layouts : Resize(l)
  \/ Unmount

Spec == Init /\ [][Next]_vars

\* The host's clock advances and a due timer's callback is eventually run.
FairSpec ==
  Spec /\ WF_vars(Tick) /\ WF_vars(\E t \in timers : TimerFire(t))

\* ---- carousel ---------------------------------------------------------------
\* useEffect(() => { updateScrollState() }, [])
CarouselMount ==
  /\ ~carouselMounted
  /\ carouselMounted' = TRUE
  /\ LET u == updateScrollState(scrollLeft, scrollWidth, clientWidth)
     IN  /\ canScrollPrev' = u.prev
         /\ canScrollNext' = u.next
         /\ scrollProgress' = u.progress
  /\ UNCHANGED << secVars, navVars, paging, scrollLeft, scrollWidth, clientWidth, firstChildWidth,
                  scrollDest, scrollEventPending, lastScrollBy, clicks,
                  expectedLeft >>

\* The offset predicted for a click of delta: one card from the offset at
\* rest, or one more card on top of the prediction when the click comes in
\* the same direction while the previous scroll is still in progress.
ExpectedAfterClick(delta) ==
  IF scrollDest = None
    THEN clampOffset(scrollLeft + delta, scrollWidth, clientWidth)
  ELSE IF expectedLeft = None \/ delta * lastScrollBy <= 0
    THEN None
  ELSE clampOffset(expectedLeft + delta, scrollWidth, clientWidth)

\* Arrow button onClick = handleArrowClick(direction); the button is disabled
\* while its flag is false.  scrollBy adds the delta to the current offset and
\* starts a smooth scroll to the clamped sum, replacing the one in progress.
ArrowClickAndUpdate(direction) ==
  /\ carouselMounted /\ clicks < MaxClicks
  /\ IF direction = 1 THEN canScrollNext ELSE canScrollPrev
  /\ LET delta == direction * step(firstChildWidth, clientWidth)
         dest == clampOffset(scrollLeft + delta, scrollWidth, clientWidth)
         u == updateScrollState(scrollLeft, scrollWidth, clientWidth)
     IN  /\ lastScrollBy' = delta
         /\ scrollDest' = IF dest = scrollLeft THEN None ELSE dest
         /\ canScrollPrev' = u.prev
         /\ canScrollNext' = u.next
         /\ scrollProgress' = u.progress
         /\ expectedLeft' = ExpectedAfterClick(delta)
  /\ clicks' = clicks + 1
  /\ UNCHANGED << secVars, navVars, paging, carouselMounted, scrollLeft, scrollWidth, clientWidth,
                  firstChildWidth, scrollEventPending >>

handleArrowClick(direction) ==
  /\ carouselMounted /\ clicks < MaxClicks
  /\ IF direction = 1 THEN canScrollNext ELSE canScrollPrev
  /\ LET delta == direction * step(firstChildWidth, clientWidth)
         dest == clampOffset(scrollLeft + delta, scrollWidth, clientWidth)
     IN  /\ lastScrollBy' = delta
         /\ scrollDest' = IF dest = scrollLeft THEN None ELSE dest
         /\ expectedLeft' = ExpectedAfterClick(delta)
  /\ clicks' = clicks + 1
  /\ UNCHANGED << secVars, navVars, paging, carouselMounted, scrollLeft, scrollWidth, clientWidth,
                  firstChildWidth, scrollEventPending, canScrollPrev,
                  canScrollNext, scrollProgress >>

\* A frame of the smooth scroll: the offset moves half way or to the
\* destination, and a scroll event is queued.
ScrollAdvance(half) ==
  /\ scrollDest # None
  /\ LET to == IF half THEN (scrollLeft + scrollDest) \div 2 ELSE scrollDest
     IN  /\ to # scrollLeft
         /\ scrollLeft' = to
         /\ scrollDest' = IF to = scrollDest THEN None ELSE scrollDest
  /\ scrollEventPending' = TRUE
  /\ UNCHANGED << secVars, navVars, paging, carouselMounted, scrollWidth, clientWidth,
                  firstChildWidth, canScrollPrev, canScrollNext, scrollProgress,
                  lastScrollBy, clicks, expectedLeft >>

\* Track onScroll = updateScrollState
ScrollEvent ==
  /\ carouselMounted /\ scrollEventPending
  /\ scrollEventPending' = FALSE
  /\ LET u == updateScrollState(scrollLeft, scrollWidth, clientWidth)
     IN  /\ canScrollPrev' = u.prev
         /\ canScrollNext' = u.next
         /\ scrollProgress' = u.progress
  /\ UNCHANGED << secVars, navVars, paging, carouselMounted, scrollLeft, scrollWidth, clientWidth,
                  firstChildWidth, scrollDest, lastScrollBy, clicks,
                  expectedLeft >>

\* The products or the viewport change: new extents; the host clamps the
\* offset and the destination, and queues a scroll event when the offset moved.
\* No handler of the carousel runs.
Relayout(t) ==
  /\ carouselMounted
  /\ << t.scrollWidth, t.clientWidth, t.firstChildWidth >>
       # << scrollWidth, clientWidth, firstChildWidth >>
  /\ scrollWidth' = t.scrollWidth
  /\ clientWidth' = t.clientWidth
  /\ firstChildWidth' = t.firstChildWidth
  /\ scrollLeft' = clampOffset(scrollLeft, t.scrollWidth, t.clientWidth)
  /\ scrollDest' =
       IF scrollDest = None THEN None
       ELSE LET d == clampOffset(scrollDest, t.scrollWidth, t.clientWidth)
            IN  IF d = scrollLeft' THEN None ELSE d
  /\ scrollEventPending' = (scrollEventPending \/ scrollLeft' # scrollLeft)
  /\ expectedLeft' = None
  /\ UNCHANGED << secVars, navVars, paging, carouselMounted, canScrollPrev, canScrollNext,
                  scrollProgress, lastScrollBy, clicks >>

\* The carousel rendered with any of the tracks; the NavBar at rest.
CarouselInit ==
  /\ NavInit
  /\ scrollY = 0 /\ innerWidth = 1440 /\ btnRect = [left |-> 700, width |-> 20]
  /\ \E t \in Tracks : CarouselRendered(t)
  /\ SectionsRendered(TRUE, Videos, TRUE, Sections)

CarouselNext ==
  \/ CarouselMount
  \/ \E direction \in {0 - 1, 1} : handleArrowClick(direction)
  \/ \E half \in BOOLEAN : ScrollAdvance(half)
  \/ ScrollEvent
  \/ \E t \in Tracks : Relayout(t)

CarouselSpec == CarouselInit /\ [][CarouselNext]_vars

\* ---- paging --------------------------------------------------------------
\* The carousel mounted and at rest at offset o of the track t, its flags as
\* the last scroll event left them.
CarouselAtRest(t, o) ==
  /\ carouselMounted = TRUE
  /\ scrollLeft = o
  /\ scrollWidth = t.scrollWidth
  /\ clientWidth = t.clientWidth
  /\ firstChildWidth = t.firstChildWidth
  /\ scrollDest = None
  /\ scrollEventPending = FALSE
  /\ LET u == updateScrollState(o, t.scrollWidth, t.clientWidth)
     IN  /\ canScrollPrev = u.prev
         /\ canScrollNext = u.next
         /\ scrollProgress = u.progress
  /\ lastScrollBy = 0
  /\ clicks = 0
  /\ expectedLeft = None

\* An overflowing track at rest at any offset; the user keeps to one arrow.
PagingInit ==
  /\ NavInit
  /\ scrollY = 0 /\ innerWidth = 1440 /\ btnRect = [left |-> 700, width |-> 20]
  /\ paging \in {0 - 1, 1}
  /\ \E t \in Tracks :
       /\ t.scrollWidth > t.clientWidth
       /\ \E o \in 0..maxScroll(t.scrollWidth, t.clientWidth) : CarouselAtRest(t, o)
  /\ SectionsRendered(TRUE, Videos, TRUE, Sections)

\* The user clicks the arrow again once the scroll has completed and its
\* scroll event is delivered.
PagingClick ==
  /\ scrollDest = None /\ ~scrollEventPending
  /\ handleArrowClick(paging)

PagingNext ==
  \/ PagingClick
  \/ \E half \in BOOLEAN : ScrollAdvance(half)
  \/ ScrollEvent

\* The smooth scroll keeps running, scroll events are delivered, and the user
\* keeps clicking while the arrow is enabled.
PagingSpec ==
  /\ PagingInit /\ [][PagingNext]_vars
  /\ WF_vars(PagingClick)
  /\ WF_vars(\E half \in BOOLEAN : ScrollAdvance(half))
  /\ WF_vars(ScrollEvent)

\* ---- CTASection ------------------------------------------------------------
\* "Read more" onClick = handleReadMoreClick; the button is rendered while
\* the story is collapsed.
ReadMoreToggles ==
  /\ isExpanded' = ~isExpanded
  /\ UNCHANGED << navVars, carVars, heroMounted, isDesktop, clickListener,
                  touchListener, videoPlaying, playAttempted, fallbackRuns,
                  fallbackThrew, interactions, hasIntersectionObserver,
                  nodeAttached, sectionPhase, observing, isVisible >>

handleReadMoreClick ==
  /\ ~isExpanded
  /\ isExpanded' = (IF ~isExpanded THEN TRUE ELSE isExpanded)
  /\ UNCHANGED << navVars, carVars, heroMounted, isDesktop, clickListener,
                  touchListener, videoPlaying, playAttempted, fallbackRuns,
                  fallbackThrew, interactions, hasIntersectionObserver,
                  nodeAttached, sectionPhase, observing, isVisible >>

\* ---- Hero -------------------------------------------------------------------
\* attemptPlay on the videos in vs: each of them may start playing or stay
\* blocked; the others are left as they are.
AfterAttemptPlay(vs) ==
  { f \in [Videos -> BOOLEAN] :
      \A v \in Videos : /\ videoPlaying[v] => f[v]
                        /\ v \notin vs => f[v] = videoPlaying[v] }

\* mediaQuery "change" = updateVideoSource: setIsDesktop, attemptPlay(video)
\* (both sources are the same URL, so the src attribute is left alone).
MediaChange ==
  /\ heroMounted
  /\ isDesktop' = ~isDesktop
  /\ videoPlaying' \in AfterAttemptPlay({"hero"})
  /\ UNCHANGED << navVars, carVars, isExpanded, heroMounted, clickListener,
                  touchListener, playAttempted, fallbackRuns, fallbackThrew,
                  interactions, hasIntersectionObserver, nodeAttached,
                  sectionPhase, observing, isVisible >>

\* A click or touchstart on body.  With the listener of that kind registered,
\* playVideoOnLowPower runs: attemptPlay on every video that is not playing
\* (nothing when the try block throws first), then both listeners removed.
BodyEventKeepsOtherListener(kind, throws) ==
  /\ interactions < MaxInteractions
  /\ interactions' = interactions + 1
  /\ IF (kind = "click" /\ clickListener) \/ (kind = "touchstart" /\ touchListener)
       THEN /\ fallbackRuns' = fallbackRuns + 1
            /\ fallbackThrew' = throws
            /\ playAttempted' = IF throws THEN {}
                                 ELSE { v \in Videos : ~videoPlaying[v] }
            /\ videoPlaying' \in AfterAttemptPlay(playAttempted')
            /\ clickListener' = (clickListener /\ kind # "click")
            /\ touchListener' = (touchListener /\ kind # "touchstart")
       ELSE /\ ~throws
            /\ UNCHANGED << fallbackRuns, fallbackThrew, playAttempted,
                            videoPlaying, clickListener, touchListener >>
  /\ UNCHANGED << navVars, carVars, isExpanded, heroMounted, isDesktop,
                  hasIntersectionObserver, nodeAttached, sectionPhase,
                  observing, isVisible >>

BodyEvent(kind, throws) ==
  /\ interactions < MaxInteractions
  /\ interactions' = interactions + 1
  /\ IF (kind = "click" /\ clickListener) \/ (kind = "touchstart" /\ touchListener)
       THEN /\ fallbackRuns' = fallbackRuns + 1
            /\ fallbackThrew' = throws
            /\ playAttempted' = IF throws THEN {}
                                 ELSE { v \in Videos : ~videoPlaying[v] }
            /\ videoPlaying' \in AfterAttemptPlay(playAttempted')
            /\ clickListener' = FALSE
            /\ touchListener' = FALSE
       ELSE /\ ~throws
            /\ UNCHANGED << fallbackRuns, fallbackThrew, playAttempted,
                            videoPlaying, clickListener, touchListener >>
  /\ UNCHANGED << navVars, carVars, isExpanded, heroMounted, isDesktop,
                  hasIntersectionObserver, nodeAttached, sectionPhase,
                  observing, isVisible >>

\* The Hero's effect cleanups: both body listeners removed.
HeroUnmount ==
  /\ heroMounted
  /\ heroMounted' = FALSE
  /\ clickListener' = FALSE
  /\ touchListener' = FALSE
  /\ UNCHANGED << navVars, carVars, isExpanded, isDesktop, videoPlaying,
                  playAttempted, fallbackRuns, fallbackThrew, interactions,
                  hasIntersectionObserver, nodeAttached, sectionPhase,
                  observing, isVisible >>

\* ---- observed sections ------------------------------------------------------
\* The section's effect: without a node or without IntersectionObserver
\* setIsVisible(true); otherwise a new observer observes the node.
SectionMount(s) ==
  /\ sectionPhase[s] = "rendered"
  /\ sectionPhase' = [sectionPhase EXCEPT ![s] = "mounted"]
  /\ IF ~nodeAttached[s] \/ ~hasIntersectionObserver
       THEN /\ isVisible' = [isVisible EXCEPT ![s] = TRUE]
            /\ UNCHANGED observing
       ELSE /\ observing' = [observing EXCEPT ![s] = TRUE]
            /\ UNCHANGED isVisible
  /\ UNCHANGED << navVars, carVars, isExpanded, heroMounted, isDesktop,
                  clickListener, touchListener, videoPlaying, playAttempted,
                  fallbackRuns, fallbackThrew, interactions,
                  hasIntersectionObserver, nodeAttached >>

\* The observer's callback with one entry for the node.
IntersectionTracksVisibility(s, isIntersecting) ==
  /\ observing[s]
  /\ isVisible' = [isVisible EXCEPT ![s] = isIntersecting]
  /\ UNCHANGED << navVars, carVars, isExpanded, heroMounted, isDesktop,
                  clickListener, touchListener, videoPlaying, playAttempted,
                  fallbackRuns, fallbackThrew, interactions,
                  hasIntersectionObserver, nodeAttached, sectionPhase,
                  observing >>

IntersectionCallback(s, isIntersecting) ==
  /\ observing[s]
  /\ IF isIntersecting
       THEN /\ isVisible' = [isVisible EXCEPT ![s] = TRUE]
            /\ observing' = [observing EXCEPT ![s] = FALSE]
       ELSE UNCHANGED << isVisible, observing >>
  /\ UNCHANGED << navVars, carVars, isExpanded, heroMounted, isDesktop,
                  clickListener, touchListener, videoPlaying, playAttempted,
                  fallbackRuns, fallbackThrew, interactions,
                  hasIntersectionObserver, nodeAttached, sectionPhase >>

\* The effect's cleanup: observer.disconnect()
SectionUnmount(s) ==
  /\ sectionPhase[s] = "mounted"
  /\ sectionPhase' = [sectionPhase EXCEPT ![s] = "unmounted"]
  /\ observing' = [observing EXCEPT ![s] = FALSE]
  /\ UNCHANGED << navVars, carVars, isExpanded, heroMounted, isDesktop,
                  clickListener, touchListener, videoPlaying, playAttempted,
                  fallbackRuns, fallbackThrew, interactions,
                  hasIntersectionObserver, nodeAttached, isVisible >>

\* The page's sections in any host of desktop width (narrower widths are
\* reached by MediaChange); the NavBar and the carousel at rest.
SectionsInit ==
  /\ NavInit
  /\ scrollY = 0 /\ innerWidth = 1440 /\ btnRect = [left |-> 700, width |-> 20]
  /\ CarouselRendered([scrollWidth |-> 230, clientWidth |-> 100,
                       firstChildWidth |-> 30])
  /\ \E playing \in SUBSET Videos, io \in BOOLEAN, nodes \in SUBSET Sections :
       SectionsRendered(TRUE, playing, io, nodes)

SectionsNext ==
  \/ handleReadMoreClick
  \/ MediaChange
  \/ \E kind \in {"click", "touchstart"}, throws \in BOOLEAN : BodyEvent(kind, throws)
  \/ HeroUnmount
  \/ \E s \in Sections : SectionMount(s)
  \/ \E s \in Sections, isIntersecting \in BOOLEAN : IntersectionCallback(s, isIntersecting)
  \/ \E s \in Sections : SectionUnmount(s)

SectionsSpec == SectionsInit /\ [][SectionsNext]_vars

\* ---- properties ---------------------------------------------------------

\* C1: the cart and wishlist drawers are never both visible, and a step that
\* opens one of them leaves the other one closed.
C1_ExclusiveDrawers ==
  /\ [](~(isCartDrawerOpen /\ isWishlistDrawerOpen))
  /\ [][ /\ (~isCartDrawerOpen /\ isCartDrawerOpen') => ~isWishlistDrawerOpen'
         /\ (~isWishlistDrawerOpen /\ isWishlistDrawerOpen') => ~isCartDrawerOpen'
       ]_vars

C1_Witness ==
  isCartDrawerOpen /\ ~isWishlistDrawerOpen /\ isLocationDrawerOpen

\* C2: a pointer entry into the hover zone leaves the active menu as it was
\* and no timer pending, and a cancelled timer never fires afterwards.
C2_ReentryCancelsClose ==
  /\ [][ (pointer = "out" /\ pointer' # "out") =>
           /\ activeDesktopMenu' = activeDesktopMenu
           /\ timers' = {}
           /\ megaMenuCloseTimeoutRef' = NoTimer ]_vars
  /\ [][ closeTimerFate = "cancelled" => closeTimerFate' # "fired" ]_vars

C2_Witness ==
  /\ mounted /\ pointer \in {"header", "panel"}
  /\ activeDesktopMenu # "null"
  /\ closeTimerFate = "cancelled" /\ timers = {}

\* C3: once the pointer is outside the zone with a menu open, the menu
\* eventually closes unless the pointer re-enters or the NavBar is unmounted;
\* the callback that closes it leaves no timer pending.
C3_LeaveEventuallyCloses ==
  /\ (mounted /\ pointer = "out" /\ activeDesktopMenu # "null")
       ~> (activeDesktopMenu = "null" \/ pointer # "out" \/ ~mounted)
  /\ [][ (timers' # timers /\ closeTimerFate' = "fired") =>
           /\ activeDesktopMenu' = "null"
           /\ timers' = {}
           /\ megaMenuCloseTimeoutRef' = NoTimer ]_vars

C3_Witness ==
  /\ mounted /\ pointer = "out" /\ closeTimerFate = "fired"
  /\ activeDesktopMenu = "null" /\ timers = {}
  /\ megaMenuCloseTimeoutRef = NoTimer

\* C4: with a menu open, moving the pointer onto another item that has a
\* panel makes that item the active menu in the same step, no timer pending.
C4_ImmediateSwitch ==
  [][ ( /\ activeDesktopMenu # "null"
        /\ pointer' \in PrimaryNavItemId /\ pointer' # pointer
        /\ hasMegaMenu(pointer') /\ pointer' # activeDesktopMenu ) =>
        /\ activeDesktopMenu' = pointer'
        /\ timers' = {}
        /\ megaMenuCloseTimeoutRef' = NoTimer ]_vars

C4_Witness ==
  /\ pointer \in PrimaryNavItemId /\ hasMegaMenu(pointer)
  /\ activeDesktopMenu = pointer
  /\ closeTimerFate = "cancelled" /\ timers = {}

\* C5: moving the pointer onto an item without a panel sets the active menu
\* to none in that very step.
C5_PlainItemClosesNow ==
  [][ ( /\ pointer' \in PrimaryNavItemId /\ pointer' # pointer
        /\ ~hasMegaMenu(pointer') ) =>
        activeDesktopMenu' = "null" ]_vars

C5_Witness ==
  /\ pointer = "sustainability" /\ activeDesktopMenu = "null"
  /\ isHovered /\ timers = {}

\* C6: every search toggle, opening or closing, leaves the active menu none.
C6_SearchToggleClosesMenu ==
  [][ isSearchBarOpen' # isSearchBarOpen => activeDesktopMenu' = "null" ]_vars

C6_Witness ==
  /\ mounted /\ pointer \in PrimaryNavItemId /\ hasMegaMenu(pointer)
  /\ activeDesktopMenu = "null" /\ ~isSearchBarOpen

\* C7: at most one timer is pending, and the stored handle is set exactly
\* when a timer is pending and then names that timer.
C7_SingleTimer ==
  /\ Cardinality(timers) <= 1
  /\ \A t \in timers : t.id = megaMenuCloseTimeoutRef
  /\ megaMenuCloseTimeoutRef # NoTimer =>
       \E t \in timers : t.id = megaMenuCloseTimeoutRef

C7_Witness ==
  /\ nextTimerId > 2 /\ pointer = "out"
  /\ timers = {[id |-> 2, remaining |-> MegaMenuCloseDelay]}
  /\ megaMenuCloseTimeoutRef = 2

\* C8: from the unmount on, no timer is pending, no handle is stored and the
\* active menu is never written.
C8_UnmountCancelsTimer ==
  [][ ~mounted' =>
        /\ timers' = {}
        /\ megaMenuCloseTimeoutRef' = NoTimer
        /\ activeDesktopMenu' = activeDesktopMenu ]_vars

C8_Witness ==
  /\ ~mounted /\ pointer = "out" /\ closeTimerFate = "cancelled"
  /\ activeDesktopMenu # "null" /\ timers = {}

\* C9: a placement computed by an opening toggle has
\* 12 <= left <= innerWidth - width - 12.
C9_LeftWithinViewport ==
  [][ (~isSearchBarOpen /\ isSearchBarOpen' /\ ~searchBarStyle'.isNull) =>
        /\ 2 * 12 <= searchBarStyle'.left2
        /\ searchBarStyle'.left2
             <= 2 * (innerWidth - searchBarStyle'.width - 12) ]_vars

C9_Witness ==
  /\ isSearchBarOpen /\ ~searchBarStyle.isNull
  /\ searchBarStyle.left2 = 2 * (innerWidth - searchBarStyle.width - 12)
  /\ 2 * btnRect.left + btnRect.width - searchBarStyle.width
       > searchBarStyle.left2

\* C10: at innerWidth 1440 with the trigger at left 700, width 20, an
\* opening toggle computes width 633 (= floor(633.6)) and left 393.5, the
\* clamp to [12, 795] leaving left as it was.
C10_Scenario1440 ==
  [][ ( /\ ~isSearchBarOpen /\ isSearchBarOpen' /\ ~searchBarStyle'.isNull
        /\ innerWidth = 1440 /\ btnRect = [left |-> 700, width |-> 20] ) =>
        /\ searchBarStyle'.width = 633
        /\ searchBarStyle'.left2 = 787
        /\ searchBarStyle'.left2 = 2 * 700 + 20 - 633
        /\ innerWidth - searchBarStyle'.width - 12 = 795 ]_vars

C10_Witness ==
  /\ isSearchBarOpen /\ innerWidth = 1440
  /\ btnRect = [left |-> 700, width |-> 20]
  /\ searchBarStyle = [isNull |-> FALSE, left2 |-> 787, top |-> 65, width |-> 633]

\* C10 as stated: the same toggle computes width 634 and left 393, with the
\* clamp bounds [12, 794].
C10_Original ==
  [][ ( /\ ~isSearchBarOpen /\ isSearchBarOpen' /\ ~searchBarStyle'.isNull
        /\ innerWidth = 1440 /\ btnRect = [left |-> 700, width |-> 20] ) =>
        /\ searchBarStyle'.width = 634
        /\ searchBarStyle'.left2 = 2 * 393
        /\ innerWidth - searchBarStyle'.width - 12 = 794 ]_vars

\* C11 as stated: an opening toggle that finds the trigger reporting a
\* zero-size rectangle opens the overlay with no placement (left, top and
\* width undefined).
C11_Original ==
  [][ (~isSearchBarOpen /\ isSearchBarOpen' /\ btnRect.width = 0) =>
        searchBarStyle' = NullStyle ]_vars

\* C12: the placement is null whenever the overlay is closed, changes only
\* in a step that toggles the overlay, and a placement computed on opening
\* comes from the measurements of that moment.
C12_PlacementOnlyByToggle ==
  /\ [](~isSearchBarOpen => searchBarStyle = NullStyle)
  /\ [][ searchBarStyle' # searchBarStyle =>
           isSearchBarOpen' # isSearchBarOpen ]_vars
  /\ [][ (~isSearchBarOpen /\ isSearchBarOpen' /\ ~searchBarStyle'.isNull) =>
           /\ searchBarStyle'.width = computedWidth(innerWidth)
           /\ searchBarStyle'.left2 = computedLeft2(innerWidth, btnRect) ]_vars

C12_Witness ==
  /\ isSearchBarOpen /\ ~searchBarStyle.isNull
  /\ searchBarStyle.width # computedWidth(innerWidth)
  /\ ~isAtTop /\ isCartDrawerOpen

\* C17: a step that changes the cart or the wishlist drawer leaves the mobile
\* menu, the location drawer and the search overlay as they were; a step that
\* changes the mobile menu or the location drawer leaves all other drawers
\* and the search overlay as they were.
C17_IndependentPanels ==
  [][ /\ (isCartDrawerOpen' # isCartDrawerOpen
            \/ isWishlistDrawerOpen' # isWishlistDrawerOpen) =>
           UNCHANGED << isMobileMenuOpen, isLocationDrawerOpen, searchVars >>
      /\ isMobileMenuOpen' # isMobileMenuOpen =>
           UNCHANGED << isLocationDrawerOpen, isCartDrawerOpen,
                        isWishlistDrawerOpen, searchVars >>
      /\ isLocationDrawerOpen' # isLocationDrawerOpen =>
           UNCHANGED << isMobileMenuOpen, isCartDrawerOpen,
                        isWishlistDrawerOpen, searchVars >> ]_vars

C17_Witness ==
  /\ isMobileMenuOpen /\ isLocationDrawerOpen /\ isSearchBarOpen
  /\ isCartDrawerOpen /\ innerWidth < MdBreakpoint

\* C18: a step that closes one drawer changes no other drawer, nor the search
\* overlay, nor the active menu.
C18_CloseOnlyItself ==
  [][ /\ (isLocationDrawerOpen /\ ~isLocationDrawerOpen') =>
           UNCHANGED << isMobileMenuOpen, isCartDrawerOpen, isWishlistDrawerOpen,
                        searchVars, activeDesktopMenu >>
      /\ (isMobileMenuOpen /\ ~isMobileMenuOpen') =>
           UNCHANGED << isLocationDrawerOpen, isCartDrawerOpen,
                        isWishlistDrawerOpen, searchVars, activeDesktopMenu >>
      /\ (isCartDrawerOpen /\ ~isCartDrawerOpen' /\ ~isWishlistDrawerOpen') =>
           UNCHANGED << isMobileMenuOpen, isLocationDrawerOpen,
                        isWishlistDrawerOpen, searchVars, activeDesktopMenu >>
      /\ (isWishlistDrawerOpen /\ ~isWishlistDrawerOpen' /\ ~isCartDrawerOpen') =>
           UNCHANGED << isMobileMenuOpen, isLocationDrawerOpen,
                        isCartDrawerOpen, searchVars, activeDesktopMenu >> ]_vars

C18_Witness ==
  /\ mounted /\ ~isCartDrawerOpen /\ ~isWishlistDrawerOpen
  /\ isLocationDrawerOpen /\ isSearchBarOpen
  /\ pointer \in PrimaryNavItemId /\ activeDesktopMenu = pointer

\* C13: an arrow click with a measurable first card issues a scroll by the
\* card's width plus 20 px in the arrow's direction, towards the current
\* offset plus that amount clamped to [0, maxScroll]; a scroll that ends
\* without a further click or layout change ends at that destination.
C13_StepOneCard ==
  /\ [][ (clicks' = clicks + 1 /\ firstChildWidth # None /\ firstChildWidth > 0) =>
           /\ lastScrollBy' \in {firstChildWidth + 20, 0 - (firstChildWidth + 20)}
           /\ lastScrollBy' > 0 => canScrollNext
           /\ lastScrollBy' < 0 => canScrollPrev
           /\ LET sum == scrollLeft + lastScrollBy'
                  top == scrollWidth - clientWidth
                  dest == IF sum < 0 THEN 0 ELSE IF sum > top THEN top ELSE sum
              IN  scrollDest' = IF dest = scrollLeft THEN None ELSE dest ]_vars
  /\ [][ ( /\ scrollDest # None /\ scrollDest' = None /\ clicks' = clicks
           /\ scrollWidth' = scrollWidth /\ clientWidth' = clientWidth ) =>
           scrollLeft' = scrollDest ]_vars

C13_Witness ==
  /\ carouselMounted /\ scrollDest = None /\ clicks = 1
  /\ firstChildWidth = 30 /\ lastScrollBy = 50 /\ scrollLeft = 50
  /\ scrollWidth = 230

\* C14 as stated: an arrow click that finds no first card, or a first card of
\* zero width, issues a scroll by 80% of the track's client width, no gap added.
C14_Original ==
  [][ (clicks' = clicks + 1 /\ (firstChildWidth = None \/ firstChildWidth = 0)) =>
        lastScrollBy' \in {(clientWidth * 8) \div 10,
                           0 - ((clientWidth * 8) \div 10)} ]_vars

\* C15: with maxScroll > 0 the progress computed for the offsets 0..maxScroll
\* is 0 at 0, 100 at maxScroll, never decreases from one offset to the next
\* and lies in [0, 100]; so does the stored progress.
C15_ProgressMonotone ==
  /\ 0 <= scrollProgress.num /\ scrollProgress.num <= 100 * scrollProgress.den
  /\ scrollWidth - clientWidth > 0 =>
       LET top == scrollWidth - clientWidth
           P(o) == updateScrollState(o, scrollWidth, clientWidth).progress
       IN  /\ P(0).num = 0
           /\ P(top).num = 100 * P(top).den
           /\ \A o \in 0..(top - 1) : P(o).num * P(o + 1).den
                                        <= P(o + 1).num * P(o).den
           /\ \A o \in 0..top : 0 <= P(o).num /\ P(o).num <= 100 * P(o).den

C15_Witness ==
  /\ carouselMounted /\ ~scrollEventPending
  /\ scrollWidth = 230 /\ scrollLeft = 130
  /\ scrollProgress.num = 100 * scrollProgress.den

\* C16: a recomputation (mount effect or scroll event) that finds
\* scrollWidth <= clientWidth sets canScrollPrev and canScrollNext to false
\* and the progress to 100.
C16_ContentFits ==
  [][ ( /\ \/ (~carouselMounted /\ carouselMounted')
           \/ (scrollEventPending /\ ~scrollEventPending')
        /\ scrollWidth' <= clientWidth' ) =>
        /\ ~canScrollPrev' /\ ~canScrollNext'
        /\ scrollProgress' = [num |-> 100, den |-> 1] ]_vars

C16_Witness ==
  /\ carouselMounted /\ ~scrollEventPending /\ scrollWidth <= clientWidth
  /\ firstChildWidth = None /\ lastScrollBy > 0
  /\ ~canScrollPrev /\ ~canScrollNext
  /\ scrollProgress = [num |-> 100, den |-> 1]

\* C19 as stated: once the scrolling has come to rest after k clicks in one
\* direction, the offset is the start offset plus k steps, clamped to
\* [0, maxScroll], also when a click arrived during the previous scroll.
C19_Original ==
  (carouselMounted /\ scrollDest = None /\ expectedLeft # None) =>
    scrollLeft = expectedLeft

\* C20: the two flags and the progress change only in the mount effect or in
\* a scroll event, after which they are the values derived from the current
\* offset and extents; an arrow click leaves them and the offset untouched.
C20_RecomputeOnlyOnMountAndScroll ==
  /\ [][ << canScrollPrev, canScrollNext, scrollProgress >>'
           # << canScrollPrev, canScrollNext, scrollProgress >> =>
           \/ (~carouselMounted /\ carouselMounted')
           \/ (scrollEventPending /\ ~scrollEventPending') ]_vars
  /\ [][ ( \/ (~carouselMounted /\ carouselMounted')
           \/ (scrollEventPending /\ ~scrollEventPending') ) =>
           /\ canScrollPrev' = (scrollLeft' > 0)
           /\ canScrollNext' = (scrollLeft' < scrollWidth' - clientWidth' - 1)
           /\ scrollProgress' =
                IF scrollWidth' - clientWidth' <= 0
                  THEN [num |-> 100, den |-> 1]
                  ELSE [num |-> scrollLeft' * 100,
                        den |-> scrollWidth' - clientWidth'] ]_vars
  /\ [][ clicks' # clicks => scrollLeft' = scrollLeft ]_vars

C20_Witness ==
  /\ carouselMounted /\ ~scrollEventPending /\ scrollDest = None
  /\ canScrollNext /\ scrollWidth <= clientWidth /\ clicks > 0

C25_SearchExcludesMegaMenu ==
  \A item \in PrimaryNavItemId :
    ~(isSearchBarOpen /\ DesktopMegaMenuRendered(item))

C25_Witness ==
  /\ mounted /\ isSearchBarOpen /\ pointer = "explore"
  /\ activeDesktopMenu = "explore"

\* C27: a close timer is pending only while the pointer is outside the hover
\* zone; every step that puts the pointer on the header, the panel or a nav
\* item leaves no timer pending and the ref null.
C27_TimerOnlyWhileOutside ==
  /\ [](timers # {} => pointer = "out")
  /\ [][ (pointer' # pointer /\ pointer' # "out") =>
           (timers' = {} /\ megaMenuCloseTimeoutRef' = NoTimer) ]_vars

C27_Witness ==
  /\ mounted /\ pointer = "sustainability" /\ closeTimerFate = "cancelled"
  /\ timers = {} /\ activeDesktopMenu = "null"

\* C28 as stated: a nav button with aria-expanded "true" has its
\* DesktopMegaMenu rendered.
C28_Original ==
  \A item \in PrimaryNavItemId :
    ariaExpanded(item) => DesktopMegaMenuRendered(item)

\* C26 as stated: after a recomputation (mount effect or scroll event) a
\* disabled Next arrow comes with a progress of 100.
C26_Original ==
  [][ ( /\ \/ (~carouselMounted /\ carouselMounted')
           \/ (scrollEventPending /\ ~scrollEventPending')
        /\ ~canScrollNext' ) =>
        scrollProgress'.num = 100 * scrollProgress'.den ]_vars

\* C26, amended: after a recomputation a disabled Next arrow comes with an
\* offset of at least maxScroll - 1; the progress is 100 when the content
\* fits, and otherwise offset / maxScroll * 100, which is at least
\* (maxScroll - 1) / maxScroll * 100 and may be as low as 0 (maxScroll = 1).
C26_NextDisabledNearEnd ==
  [][ ( /\ \/ (~carouselMounted /\ carouselMounted')
           \/ (scrollEventPending /\ ~scrollEventPending')
        /\ ~canScrollNext' ) =>
        LET top == scrollWidth' - clientWidth'
        IN  /\ scrollLeft' >= top - 1
            /\ top <= 0 => scrollProgress' = [num |-> 100, den |-> 1]
            /\ top > 0 =>
                 /\ scrollProgress'.num * top = scrollLeft' * 100 * scrollProgress'.den
                 /\ scrollProgress'.num * top >= (top - 1) * 100 * scrollProgress'.den
        ]_vars

C26_Witness ==
  /\ carouselMounted /\ ~scrollEventPending /\ scrollDest = None
  /\ scrollWidth = 101 /\ clientWidth = 100 /\ scrollLeft = 0
  /\ ~canScrollNext /\ ~canScrollPrev /\ scrollProgress.num = 0

\* C29 as stated: from any offset of an overflowing track, clicking Next
\* again and again ends with Next disabled and Previous enabled; clicking
\* Previous again and again ends at offset 0 with Previous disabled.
C29_Original ==
  /\ (paging = 1) ~>
       ( /\ scrollDest = None /\ ~scrollEventPending
         /\ ~canScrollNext /\ canScrollPrev )
  /\ (paging = 0 - 1) ~>
       ( /\ scrollDest = None /\ ~scrollEventPending
         /\ scrollLeft = 0 /\ ~canScrollPrev )

\* C29, amended: clicking Next again and again ends at rest with Next
\* disabled and the offset at least maxScroll - 1, where Previous is enabled
\* when that offset is positive (always so for maxScroll > 1); clicking
\* Previous again and again ends at offset 0 with Previous disabled.
C29_PagingTerminates ==
  /\ (paging = 1) ~>
       ( /\ scrollDest = None /\ ~scrollEventPending
         /\ ~canScrollNext
         /\ scrollLeft >= scrollWidth - clientWidth - 1
         /\ canScrollPrev = (scrollLeft > 0)
         /\ scrollWidth - clientWidth > 1 => canScrollPrev )
  /\ (paging = 0 - 1) ~>
       ( /\ scrollDest = None /\ ~scrollEventPending
         /\ scrollLeft = 0 /\ ~canScrollPrev )

C29_Witness ==
  /\ paging = 1 /\ clicks = 3 /\ scrollDest = None /\ ~scrollEventPending
  /\ scrollLeft = 130 /\ scrollWidth = 230 /\ ~canScrollNext /\ canScrollPrev

\* C22: the Bergen story starts collapsed, a "Read more" click expands it,
\* and once expanded it stays expanded in every later step.
C22_ExpandsOnce ==
  /\ ~isExpanded
  /\ [][ isExpanded => isExpanded' ]_vars
  /\ [][ isExpanded' # isExpanded => (~isExpanded /\ isExpanded') ]_vars

C22_Witness ==
  /\ isExpanded /\ interactions = 2 /\ ~heroMounted
  /\ sectionPhase["StoryHero"] = "unmounted"

\* C23: playVideoOnLowPower runs at most once; its run comes with a body
\* click or touchstart while both listeners are registered, calls attemptPlay
\* on exactly the videos that are not playing (unless it throws first) and
\* leaves no listener registered, also when it throws; unmounting the Hero
\* leaves no listener registered.
C23_FallbackRunsOnce ==
  /\ [](fallbackRuns <= 1)
  /\ [](fallbackRuns = 1 => ~clickListener /\ ~touchListener)
  /\ [][ fallbackRuns' # fallbackRuns =>
           /\ clickListener /\ touchListener /\ heroMounted
           /\ interactions' = interactions + 1
           /\ ~clickListener' /\ ~touchListener'
           /\ ~fallbackThrew' =>
                playAttempted' = { v \in Videos : ~videoPlaying[v] } ]_vars
  /\ [][ (heroMounted /\ ~heroMounted') =>
           (~clickListener' /\ ~touchListener') ]_vars

C23_Witness ==
  /\ fallbackRuns = 1 /\ fallbackThrew /\ interactions = 2 /\ heroMounted
  /\ ~videoPlaying["hero"]

\* C24: a section's fade-in flag is false until its effect has run and never
\* returns to false; it becomes true either in the effect, exactly when the
\* node or IntersectionObserver is missing, or in an intersecting callback of
\* the connected observer, which is disconnected in the same step.
C24_VisibleMonotone ==
  /\ [](\A s \in Sections : sectionPhase[s] = "rendered" => ~isVisible[s])
  /\ [][ \A s \in Sections : isVisible[s] => isVisible'[s] ]_vars
  /\ [][ \A s \in Sections :
           (sectionPhase[s] = "rendered" /\ sectionPhase'[s] = "mounted") =>
             /\ isVisible'[s] = (~nodeAttached[s] \/ ~hasIntersectionObserver)
             /\ observing'[s] = ~isVisible'[s] ]_vars
  /\ [][ \A s \in Sections :
           (sectionPhase[s] # "rendered" /\ ~isVisible[s] /\ isVisible'[s]) =>
             (observing[s] /\ ~observing'[s]) ]_vars

C24_Witness ==
  /\ hasIntersectionObserver
  /\ nodeAttached["StoryHero"] /\ sectionPhase["StoryHero"] = "mounted"
  /\ isVisible["StoryHero"] /\ ~observing["StoryHero"]
  /\ ~nodeAttached["PopularProducts"] /\ isVisible["PopularProducts"]

====
